---- MODULE Spec2Model ----
(***************************************************************************)
(* A model of the protocol/data layer of the Electrum client               *)
(* (src/src/types.rs): request construction and serialization, the         *)
(* script-hash derivation, the hex codec used by the response decoders,    *)
(* the response and notification decoders, and the lifting of lower-level  *)
(* errors into the unified Error.                                          *)
(*                                                                         *)
(* Strings are TLA+ strings; byte sequences are sequences of 0..255; a     *)
(* Result<T, E> is a record [ok |-> TRUE, val |-> v] or                    *)
(* [ok |-> FALSE, err |-> e].                                              *)
(***************************************************************************)
EXTENDS Integers, Sequences, FiniteSets, TLC

(***************************************************************************)
(* Results                                                                 *)
(***************************************************************************)
Ok(v) == [ok |-> TRUE, val |-> v]

Err(e) == [ok |-> FALSE, err |-> e]

(***************************************************************************)
(* Hexadecimal digits: (c as char).to_digit(16) of the hex iterator.       *)
(* -1 stands for None.                                                     *)
(***************************************************************************)
to_digit(c) ==
    CASE c = "0" -> 0  [] c = "1" -> 1  [] c = "2" -> 2  [] c = "3" -> 3
      [] c = "4" -> 4  [] c = "5" -> 5  [] c = "6" -> 6  [] c = "7" -> 7
      [] c = "8" -> 8  [] c = "9" -> 9
      [] c = "a" -> 10 [] c = "b" -> 11 [] c = "c" -> 12 [] c = "d" -> 13
      [] c = "e" -> 14 [] c = "f" -> 15
      [] c = "A" -> 10 [] c = "B" -> 11 [] c = "C" -> 12 [] c = "D" -> 13
      [] c = "E" -> 14 [] c = "F" -> 15
      [] OTHER -> -1

(***************************************************************************)
(* SHA-256 (sha256::Hash::hash).  A 32-bit word is kept as the pair        *)
(* <<high, low>> of its 16-bit halves, so that no intermediate value       *)
(* leaves the range of 32-bit integers.                                    *)
(***************************************************************************)
Pow2(n) == 2 ^ n

\* bitwise exclusive or and bitwise and, of bits, of 4-bit numbers (tables)
\* and of 16-bit numbers
Bit(a, k) == (a \div Pow2(k)) % 2

Xor4 ==
    [a \in 0..15, b \in 0..15 |->
        8 * ((Bit(a, 3) + Bit(b, 3)) % 2) + 4 * ((Bit(a, 2) + Bit(b, 2)) % 2)
          + 2 * ((Bit(a, 1) + Bit(b, 1)) % 2) + ((Bit(a, 0) + Bit(b, 0)) % 2)]

And4 ==
    [a \in 0..15, b \in 0..15 |->
        8 * (Bit(a, 3) * Bit(b, 3)) + 4 * (Bit(a, 2) * Bit(b, 2))
          + 2 * (Bit(a, 1) * Bit(b, 1)) + (Bit(a, 0) * Bit(b, 0))]

Xor16(a, b) ==
    (4096 * Xor4[a \div 4096, b \div 4096]
       + 256 * Xor4[(a \div 256) % 16, (b \div 256) % 16])
      + (16 * Xor4[(a \div 16) % 16, (b \div 16) % 16] + Xor4[a % 16, b % 16])

And16(a, b) ==
    (4096 * And4[a \div 4096, b \div 4096]
       + 256 * And4[(a \div 256) % 16, (b \div 256) % 16])
      + (16 * And4[(a \div 16) % 16, (b \div 16) % 16] + And4[a % 16, b % 16])

\* the 16-bit number written by hex digits i..i+3 of s
HalfOfHex(s, i) ==
    4096 * to_digit(SubSeq(s, i, i)) + 256 * to_digit(SubSeq(s, i + 1, i + 1))
      + 16 * to_digit(SubSeq(s, i + 2, i + 2)) + to_digit(SubSeq(s, i + 3, i + 3))

WordOfHex(s) == << HalfOfHex(s, 1), HalfOfHex(s, 5) >>

XorW(a, b) == << Xor16(a[1], b[1]), Xor16(a[2], b[2]) >>

AndW(a, b) == << And16(a[1], b[1]), And16(a[2], b[2]) >>

NotW(a) == << 65535 - a[1], 65535 - a[2] >>

\* rotate right by n, 0 < n < 32
RotR(a, n) ==
    LET hi == IF n >= 16 THEN a[2] ELSE a[1]
        lo == IF n >= 16 THEN a[1] ELSE a[2]
        m  == n % 16
    IN  << (hi \div Pow2(m)) + (lo % Pow2(m)) * Pow2(16 - m),
           (lo \div Pow2(m)) + (hi % Pow2(m)) * Pow2(16 - m) >>

\* shift right by n, 0 < n < 16
ShR(a, n) ==
    << a[1] \div Pow2(n), (a[2] \div Pow2(n)) + (a[1] % Pow2(n)) * Pow2(16 - n) >>

\* wrapping addition modulo 2^32
AddW(a, b) ==
    << (a[1] + b[1] + ((a[2] + b[2]) \div 65536)) % 65536, (a[2] + b[2]) % 65536 >>

Sha256K ==
    << "428a2f98", "71374491", "b5c0fbcf", "e9b5dba5", "3956c25b", "59f111f1",
       "923f82a4", "ab1c5ed5", "d807aa98", "12835b01", "243185be", "550c7dc3",
       "72be5d74", "80deb1fe", "9bdc06a7", "c19bf174", "e49b69c1", "efbe4786",
       "0fc19dc6", "240ca1cc", "2de92c6f", "4a7484aa", "5cb0a9dc", "76f988da",
       "983e5152", "a831c66d", "b00327c8", "bf597fc7", "c6e00bf3", "d5a79147",
       "06ca6351", "14292967", "27b70a85", "2e1b2138", "4d2c6dfc", "53380d13",
       "650a7354", "766a0abb", "81c2c92e", "92722c85", "a2bfe8a1", "a81a664b",
       "c24b8b70", "c76c51a3", "d192e819", "d6990624", "f40e3585", "106aa070",
       "19a4c116", "1e376c08", "2748774c", "34b0bcb5", "391c0cb3", "4ed8aa4a",
       "5b9cca4f", "682e6ff3", "748f82ee", "78a5636f", "84c87814", "8cc70208",
       "90befffa", "a4506ceb", "bef9a3f7", "c67178f2" >>

Sha256KW == [t \in 1..64 |-> WordOfHex(Sha256K[t])]

Sha256H0 ==
    << WordOfHex("6a09e667"), WordOfHex("bb67ae85"), WordOfHex("3c6ef372"),
       WordOfHex("a54ff53a"), WordOfHex("510e527f"), WordOfHex("9b05688c"),
       WordOfHex("1f83d9ab"), WordOfHex("5be0cd19") >>

SmallSigma0(x) == XorW(XorW(RotR(x, 7), RotR(x, 18)), ShR(x, 3))

SmallSigma1(x) == XorW(XorW(RotR(x, 17), RotR(x, 19)), ShR(x, 10))

BigSigma0(x) == XorW(XorW(RotR(x, 2), RotR(x, 13)), RotR(x, 22))

BigSigma1(x) == XorW(XorW(RotR(x, 6), RotR(x, 11)), RotR(x, 25))

Ch(x, y, z) == XorW(AndW(x, y), AndW(NotW(x), z))

Maj(x, y, z) == XorW(XorW(AndW(x, y), AndW(x, z)), AndW(y, z))

\* word t of the message schedule, from the words before it
NextWord(w) ==
    LET t == Len(w) + 1 IN
    AddW(AddW(SmallSigma1(w[t - 2]), w[t - 7]),
         AddW(SmallSigma0(w[t - 15]), w[t - 16]))

\* the message schedule extended to n words (by halves: the evaluation stays
\* shallow)
RECURSIVE Schedule(_, _)
Schedule(w, n) ==
    IF Len(w) >= n THEN w
    ELSE IF Len(w) + 1 = n THEN Append(w, NextWord(w))
    ELSE Schedule(Schedule(w, (Len(w) + n) \div 2), n)

\* one round: v = <<a, b, c, d, e, f, g, h>>
Round(v, k, w) ==
    LET t1 == AddW(AddW(AddW(v[8], BigSigma1(v[5])), Ch(v[5], v[6], v[7])),
                   AddW(k, w))
        t2 == AddW(BigSigma0(v[1]), Maj(v[1], v[2], v[3]))
    IN  << AddW(t1, t2), v[1], v[2], v[3], AddW(v[4], t1), v[5], v[6], v[7] >>

\* rounds lo..hi in order (by halves, and v evaluated by the test of its
\* length: the evaluation stays shallow)
RECURSIVE Rounds(_, _, _, _)
Rounds(v, w, lo, hi) ==
    IF Len(v) # 8 THEN v
    ELSE IF lo = hi THEN Round(v, Sha256KW[lo], w[lo])
    ELSE Rounds(Rounds(v, w, lo, (lo + hi) \div 2), w, ((lo + hi) \div 2) + 1, hi)

Compress(h, block) ==
    LET v == Rounds(h, Schedule(block, 64), 1, 64) IN
    << AddW(h[1], v[1]), AddW(h[2], v[2]), AddW(h[3], v[3]), AddW(h[4], v[4]),
       AddW(h[5], v[5]), AddW(h[6], v[6]), AddW(h[7], v[7]), AddW(h[8], v[8]) >>

\* the 64-bit big-endian bit length of a message of n bytes (n < 2^24)
LengthBytes(n) ==
    << 0, 0, 0, 0, (n * 8) \div 16777216, ((n * 8) \div 65536) % 256,
       ((n * 8) \div 256) % 256, (n * 8) % 256 >>

Zeros(n) == [i \in 1..n |-> 0]

\* the message, 0x80, zero bytes up to 56 mod 64, the length
Pad(bytes) ==
    LET n == Len(bytes) IN
    bytes \o <<128>> \o Zeros((64 + 55 - (n % 64)) % 64) \o LengthBytes(n)

\* word j of block b, big-endian
BlockWord(p, b, j) ==
    LET o == 64 * (b - 1) + 4 * (j - 1) IN
    << 256 * p[o + 1] + p[o + 2], 256 * p[o + 3] + p[o + 4] >>

BlockWords(p, b) == [j \in 1..16 |-> BlockWord(p, b, j)]

RECURSIVE Blocks(_, _, _)
Blocks(h, p, b) ==
    IF 64 * (b - 1) >= Len(p) THEN h
    ELSE Blocks(Compress(h, BlockWords(p, b)), p, b + 1)

\* byte k (1..4, big-endian) of a word
WordByte(w, k) ==
    CASE k = 1 -> w[1] \div 256 [] k = 2 -> w[1] % 256
      [] k = 3 -> w[2] \div 256 [] k = 4 -> w[2] % 256

\* the 32 bytes of the digest
Sha256(bytes) ==
    LET h == Blocks(Sha256H0, Pad(bytes), 1) IN
    [i \in 1..32 |-> WordByte(h[((i - 1) \div 4) + 1], ((i - 1) % 4) + 1)]

(***************************************************************************)
(* The script hash: ToElectrumScriptHash for Script.                       *)
(***************************************************************************)
Swap(s, i, j) == [s EXCEPT ![i] = s[j], ![j] = s[i]]

\* slice::reverse: element i changes place with element Len + 1 - i, for the
\* first half of the slice
RECURSIVE ReverseFrom(_, _)
ReverseFrom(s, i) ==
    IF i > Len(s) \div 2 THEN s
    ELSE ReverseFrom(Swap(s, i, Len(s) + 1 - i), i + 1)

reverse(s) == ReverseFrom(s, 1)

\* a variant: the digest as it is, its bytes not reversed
to_electrum_scripthash_unreversed(script) == Sha256(script)


to_electrum_scripthash(script) == reverse(Sha256(script))

(***************************************************************************)
(* The hex codec of bitcoin::hashes::hex, as from_hex and from_hex_array   *)
(* use it.  The characters of the model's strings are ASCII, so a string's *)
(* length is its length in bytes.                                          *)
(***************************************************************************)
Char(s, i) == SubSeq(s, i, i)

\* the ASCII code of a character of the model's inputs
Ord(c) ==
    CASE c = "0" -> 48 [] c = "1" -> 49 [] c = "2" -> 50 [] c = "3" -> 51
      [] c = "4" -> 52 [] c = "5" -> 53 [] c = "6" -> 54 [] c = "7" -> 55
      [] c = "8" -> 56 [] c = "9" -> 57
      [] c = "A" -> 65 [] c = "B" -> 66 [] c = "C" -> 67 [] c = "D" -> 68
      [] c = "E" -> 69 [] c = "F" -> 70 [] c = "G" -> 71
      [] c = "a" -> 97 [] c = "b" -> 98 [] c = "c" -> 99 [] c = "d" -> 100
      [] c = "e" -> 101 [] c = "f" -> 102 [] c = "g" -> 103
      [] c = "x" -> 120 [] c = "z" -> 122 [] c = " " -> 32

\* hex::Error
InvalidChar(c) == [hex |-> "InvalidChar", ch |-> Ord(c)]

OddLengthString(n) == [hex |-> "OddLengthString", len |-> n]

InvalidLength(expected, got) ==
    [hex |-> "InvalidLength", expected |-> expected, got |-> got]

\* Display for hex::Error
HexErrorDisplay(e) ==
    CASE e.hex = "InvalidChar" -> "invalid hex character " \o ToString(e.ch)
      [] e.hex = "OddLengthString" -> "odd hex string length " \o ToString(e.len)
      [] e.hex = "InvalidLength" ->
            "bad hex string length " \o ToString(e.got)
              \o " (expected " \o ToString(e.expected) \o ")"

\* a variant: the two digits of a byte taken in the other order
chars_to_hex_swapped(hi, lo) ==
    IF to_digit(hi) = -1 THEN Err(InvalidChar(hi))
    ELSE IF to_digit(lo) = -1 THEN Err(InvalidChar(lo))
    ELSE Ok(16 * to_digit(lo) + to_digit(hi))

\* HexIterator::next for the k-th pair of characters: chars_to_hex(hi, lo)
chars_to_hex(hi, lo) ==
    IF to_digit(hi) = -1 THEN Err(InvalidChar(hi))
    ELSE IF to_digit(lo) = -1 THEN Err(InvalidChar(lo))
    ELSE Ok(16 * to_digit(hi) + to_digit(lo))

HexPair(s, k) == chars_to_hex(Char(s, 2 * k - 1), Char(s, 2 * k))

\* the pairs whose decoding fails
BadPairs(s) == {k \in 1..(Len(s) \div 2) : ~HexPair(s, k).ok}

Min(S) == CHOOSE x \in S : \A y \in S : x <= y

Max(S) == CHOOSE x \in S : \A y \in S : x >= y

\* the bytes of an iterator all of whose pairs decode
HexBytes(s) == [k \in 1..(Len(s) \div 2) |-> HexPair(s, k).val]

\* Vec<u8>::from_hex: HexIterator::new refuses an odd length; collect() stops
\* at the first pair that fails
FromHexVec(s) ==
    IF Len(s) % 2 # 0 THEN Err(OddLengthString(Len(s)))
    ELSE IF BadPairs(s) # {} THEN Err(HexPair(s, Min(BadPairs(s))).err)
    ELSE Ok(HexBytes(s))

\* a variant: no test of the length; the bytes that decode, then zeros
FromHexArray32_zero_filled(s) ==
    Ok([k \in 1..32 |->
          IF 2 * k <= Len(s) /\ HexPair(s, k).ok THEN HexPair(s, k).val ELSE 0])

\* [u8; 32]::from_hex: the iterator must hold exactly 32 pairs
FromHexArray32(s) ==
    IF Len(s) % 2 # 0 THEN Err(OddLengthString(Len(s)))
    ELSE IF Len(s) \div 2 # 32 THEN Err(InvalidLength(2 * 32, Len(s)))
    ELSE IF BadPairs(s) # {} THEN Err(HexPair(s, Min(BadPairs(s))).err)
    ELSE Ok(HexBytes(s))

(***************************************************************************)
(* JSON values (serde_json::Value).  An object is a function from its keys *)
(* to their values; serde_json keeps the keys of an object in their        *)
(* alphabetical order, which KeyOrder lists for the keys of the model.     *)
(***************************************************************************)
JNull == [t |-> "null"]

JBool(b) == [t |-> "bool", b |-> b]

JNum(n) == [t |-> "num", n |-> n]

JStr(s) == [t |-> "str", s |-> s]

JArr(a) == [t |-> "arr", a |-> a]

JObj(o) == [t |-> "obj", o |-> o]

KeyOrder ==
    << "block_height", "confirmed", "count", "extra", "fee", "genesis_hash",
       "hash_function", "headers", "height", "hex", "max", "merkle", "pos",
       "protocol_max", "protocol_min", "pruning", "scripthash",
       "server_version", "status", "tx_hash", "tx_pos", "unconfirmed",
       "value" >>

KeyIndex(k) == CHOOSE i \in 1..Len(KeyOrder) : KeyOrder[i] = k

\* the keys of an object, in order
RECURSIVE KeysFrom(_, _)
KeysFrom(o, i) ==
    IF i > Len(KeyOrder) THEN << >>
    ELSE (IF KeyOrder[i] \in DOMAIN o THEN << KeyOrder[i] >> ELSE << >>)
           \o KeysFrom(o, i + 1)

Keys(o) == KeysFrom(o, 1)

(***************************************************************************)
(* The JSON text of a value (serde_json::to_string)                        *)
(***************************************************************************)
\* the characters of a string that the writer escapes
RECURSIVE Escape(_)
Escape(s) ==
    IF Len(s) = 0 THEN ""
    ELSE (CASE Head(s) = "\"" -> "\\\""
            [] Head(s) = "\\" -> "\\\\"
            [] OTHER -> Head(s)) \o Escape(Tail(s))

WriteStr(s) == "\"" \o Escape(s) \o "\""

\* the texts of a sequence, with commas between them
RECURSIVE Join(_)
Join(texts) ==
    IF Len(texts) = 0 THEN ""
    ELSE IF Len(texts) = 1 THEN texts[1]
    ELSE texts[1] \o "," \o Join(Tail(texts))

RECURSIVE WriteValue(_)
WriteValue(v) ==
    CASE v.t = "null" -> "null"
      [] v.t = "bool" -> (IF v.b THEN "true" ELSE "false")
      [] v.t = "num" -> ToString(v.n)
      [] v.t = "str" -> WriteStr(v.s)
      [] v.t = "arr" -> "[" \o Join([i \in 1..Len(v.a) |-> WriteValue(v.a[i])]) \o "]"
      [] v.t = "obj" ->
            "{" \o Join([i \in 1..Len(Keys(v.o)) |->
                           WriteStr(Keys(v.o)[i]) \o ":" \o WriteValue(v.o[Keys(v.o)[i]])])
                \o "}"

\* a struct: its fields in the order they are serialized, each <<key, value>>
WriteStruct(fields) ==
    "{" \o Join([i \in 1..Len(fields) |->
                   WriteStr(fields[i][1]) \o ":" \o WriteValue(fields[i][2])])
        \o "}"

(***************************************************************************)
(* Param and Request                                                       *)
(***************************************************************************)
JSONRPC_2_0 == "2.0"

\* Param: one record shape for each variant
ParamU32(n) == [u32 |-> n]

ParamUsize(n) == [usize |-> n]

ParamString(s) == [string |-> s]

ParamBool(b) == [bool |-> b]

ParamJson(v) == [json |-> v]

\* a variant: the variant's name around its value (serde's default for an enum)
SerializeParam_tagged(p) ==
    CASE "u32" \in DOMAIN p -> JObj([k \in {"U32"} |-> JNum(p.u32)])
      [] "usize" \in DOMAIN p -> JObj([k \in {"Usize"} |-> JNum(p.usize)])
      [] "string" \in DOMAIN p -> JObj([k \in {"String"} |-> JStr(p.string)])
      [] "bool" \in DOMAIN p -> JObj([k \in {"Bool"} |-> JBool(p.bool)])
      [] "json" \in DOMAIN p -> JObj([k \in {"Json"} |-> p.json])

\* Serialize for Param, #[serde(untagged)]: the value of the variant alone
SerializeParam(p) ==
    CASE "u32" \in DOMAIN p -> JNum(p.u32)
      [] "usize" \in DOMAIN p -> JNum(p.usize)
      [] "string" \in DOMAIN p -> JStr(p.string)
      [] "bool" \in DOMAIN p -> JBool(p.bool)
      [] "json" \in DOMAIN p -> p.json

\* Request::new
Request_new(method, params) ==
    [id |-> 0, jsonrpc |-> JSONRPC_2_0, method |-> method, params |-> params]

\* a variant: the id given is dropped
Request_new_id_dropping_id(id, method, params) == Request_new(method, params)

\* Request::new_id
Request_new_id(id, method, params) ==
    [Request_new(method, params) EXCEPT !.id = id]

\* Serialize for Request: the fields in the order of their declaration
SerializeRequest(r) ==
    << << "jsonrpc", JStr(r.jsonrpc) >>,
       << "id", JNum(r.id) >>,
       << "method", JStr(r.method) >>,
       << "params", JArr([i \in 1..Len(r.params) |-> SerializeParam(r.params[i])]) >> >>

(***************************************************************************)
(* Deserialization: the errors of serde_json, and the decoders of the      *)
(* fields' types.  Option<T> is None or Some(v).                           *)
(***************************************************************************)
DeInvalidType(expected) == [de |-> "invalid type", expected |-> expected]

DeInvalidValue(expected) == [de |-> "invalid value", expected |-> expected]

DeInvalidLength(n) == [de |-> "invalid length", len |-> n]

DeMissingField(key) == [de |-> "missing field", field |-> key]

\* de::Error::custom(msg): the message alone is kept
DeCustom(msg) == [de |-> "custom", msg |-> msg]

None == [some |-> FALSE]

Some(v) == [some |-> TRUE, v |-> v]

\* a variant: the height decoded as an unsigned number
de_i32_unsigned(v) ==
    IF v.t # "num" THEN Err(DeInvalidType("i32"))
    ELSE IF v.n < 0 THEN Err(DeInvalidValue("i32"))
    ELSE Ok(v.n)


de_i32(v) ==
    IF v.t # "num" THEN Err(DeInvalidType("i32"))
    ELSE IF v.n < (-2147483647) - 1 \/ v.n > 2147483647 THEN Err(DeInvalidValue("i32"))
    ELSE Ok(v.n)

de_i64(v) == IF v.t # "num" THEN Err(DeInvalidType("i64")) ELSE Ok(v.n)

\* u64 and usize: a negative number is refused
de_unsigned(v, type) ==
    IF v.t # "num" THEN Err(DeInvalidType(type))
    ELSE IF v.n < 0 THEN Err(DeInvalidValue(type))
    ELSE Ok(v.n)

de_String(v) == IF v.t # "str" THEN Err(DeInvalidType("a string")) ELSE Ok(v.s)

\* Option<T>: null is None, any other value is decoded as T
de_Option(r, v) ==
    IF v.t = "null" THEN Ok(None)
    ELSE IF r.ok THEN Ok(Some(r.val)) ELSE r

\* Txid::from_hex: 32 bytes, written from the last to the first; the iterator
\* is read from its end, so the error is that of the last pair that fails
TxidFromHex(s) ==
    IF Len(s) % 2 # 0 THEN Err(OddLengthString(Len(s)))
    ELSE IF Len(s) \div 2 # 32 THEN Err(InvalidLength(2 * 32, Len(s)))
    ELSE IF BadPairs(s) # {} THEN Err(HexPair(s, Max(BadPairs(s))).err)
    ELSE Ok([k \in 1..32 |-> HexPair(s, 33 - k).val])

\* Deserialize for Txid (human-readable form)
de_Txid(v) ==
    IF v.t # "str" THEN Err(DeInvalidType("an ASCII hex string"))
    ELSE IF TxidFromHex(v.s).ok THEN Ok(TxidFromHex(v.s).val)
    ELSE Err(DeCustom(HexErrorDisplay(TxidFromHex(v.s).err)))

de_u8(v) ==
    IF v.t # "num" THEN Err(DeInvalidType("u8"))
    ELSE IF v.n < 0 \/ v.n > 255 THEN Err(DeInvalidValue("u8"))
    ELSE Ok(v.n)

\* Deserialize for [u8; 32]: a sequence of exactly 32 numbers of 0..255, its
\* elements decoded in order
de_array32(v) ==
    IF v.t # "arr" THEN Err(DeInvalidType("an array of length 32"))
    ELSE LET n == Len(v.a)
             bad == {i \in 1..n : i <= 32 /\ ~de_u8(v.a[i]).ok}
         IN  IF bad # {} THEN de_u8(v.a[Min(bad)])
             ELSE IF n # 32 THEN Err(DeInvalidLength(n))
             ELSE Ok([i \in 1..32 |-> v.a[i].n])

(***************************************************************************)
(* from_hex, from_hex_array, from_hex_header                               *)
(***************************************************************************)
\* from_hex with T = [u8; 32]
from_hex_array32(v) ==
    IF ~de_String(v).ok THEN de_String(v)
    ELSE IF FromHexArray32(de_String(v).val).ok THEN FromHexArray32(de_String(v).val)
    ELSE Err(DeCustom(HexErrorDisplay(FromHexArray32(de_String(v).val).err)))

\* from_hex with T = Vec<u8>
from_hex_vec(v) ==
    IF ~de_String(v).ok THEN de_String(v)
    ELSE IF FromHexVec(de_String(v).val).ok THEN FromHexVec(de_String(v).val)
    ELSE Err(DeCustom(HexErrorDisplay(FromHexVec(de_String(v).val).err)))

\* Vec<String>::deserialize: an array all of whose elements are strings
de_VecString(v) ==
    IF v.t # "arr" THEN Err(DeInvalidType("a sequence"))
    ELSE IF \E i \in 1..Len(v.a) : ~de_String(v.a[i]).ok
    THEN de_String(v.a[Min({i \in 1..Len(v.a) : ~de_String(v.a[i]).ok})])
    ELSE Ok([i \in 1..Len(v.a) |-> v.a[i].s])

\* the closure of from_hex_array, on one element
hex_array_element(s) ==
    IF FromHexArray32(s).ok THEN FromHexArray32(s)
    ELSE Err(DeCustom(HexErrorDisplay(FromHexArray32(s).err)))

\* a variant: an element that fails is left out
RECURSIVE push_results_skipping(_, _, _)
push_results_skipping(results, i, answer) ==
    IF i > Len(results) THEN Ok(answer)
    ELSE IF ~results[i].ok THEN push_results_skipping(results, i + 1, answer)
    ELSE push_results_skipping(results, i + 1, Append(answer, results[i].val))

\* the loop of from_hex_array: answer.push(x?) over the results from i on
RECURSIVE push_results(_, _, _)
push_results(results, i, answer) ==
    IF i > Len(results) THEN Ok(answer)
    ELSE IF ~results[i].ok THEN results[i]
    ELSE push_results(results, i + 1, Append(answer, results[i].val))

\* from_hex_array with T = [u8; 32]
from_hex_array(v) ==
    IF ~de_VecString(v).ok THEN de_VecString(v)
    ELSE LET arr == de_VecString(v).val
             results == [i \in 1..Len(arr) |-> hex_array_element(arr[i])]
         IN  push_results(results, 1, << >>)

\* bitcoin::consensus::deserialize for a block header: exactly 80 bytes. The
\* four integers of a header are kept as their little-endian bytes.
consensus_deserialize(vec) ==
    IF Len(vec) < 80 THEN Err([consensus |-> "Io", msg |-> "failed to fill whole buffer"])
    ELSE IF Len(vec) > 80
    THEN Err([consensus |-> "ParseFailed",
              msg |-> "data not consumed entirely when explicitly deserializing"])
    ELSE Ok([version |-> SubSeq(vec, 1, 4),
             prev_blockhash |-> SubSeq(vec, 5, 36),
             merkle_root |-> SubSeq(vec, 37, 68),
             time |-> SubSeq(vec, 69, 72),
             bits |-> SubSeq(vec, 73, 76),
             nonce |-> SubSeq(vec, 77, 80)])

\* Display for consensus::encode::Error
ConsensusErrorDisplay(e) ==
    CASE e.consensus = "Io" -> "I/O error: " \o e.msg
      [] e.consensus = "ParseFailed" -> "parse failed: " \o e.msg

from_hex_header(v) ==
    IF ~from_hex_vec(v).ok THEN from_hex_vec(v)
    ELSE IF consensus_deserialize(from_hex_vec(v).val).ok
    THEN consensus_deserialize(from_hex_vec(v).val)
    ELSE Err(DeCustom(ConsensusErrorDisplay(consensus_deserialize(from_hex_vec(v).val).err)))

(***************************************************************************)
(* The records and their derived decoders.  A record type is the sequence  *)
(* of its fields in the order of their declaration: the field's name, its  *)
(* key in the payload, and how its value is decoded ("skip": not decoded). *)
(***************************************************************************)
Field(name, key, kind) == [name |-> name, key |-> key, kind |-> kind]

GetHistoryRes ==
    << Field("height", "height", "i32"),
       Field("tx_hash", "tx_hash", "Txid"),
       Field("fee", "fee", "Option<u64>") >>

ListUnspentRes ==
    << Field("height", "height", "usize"),
       Field("tx_hash", "tx_hash", "Txid"),
       Field("tx_pos", "tx_pos", "usize"),
       Field("value", "value", "u64") >>

ServerFeaturesRes ==
    << Field("server_version", "server_version", "String"),
       Field("genesis_hash", "genesis_hash", "from_hex [u8; 32]"),
       Field("protocol_min", "protocol_min", "String"),
       Field("protocol_max", "protocol_max", "String"),
       Field("hash_function", "hash_function", "Option<String>"),
       Field("pruning", "pruning", "Option<i64>") >>

\* a variant: the headers field decoded like any other
GetHeadersRes_headers_decoded ==
    << Field("max", "max", "usize"),
       Field("count", "count", "usize"),
       Field("raw_headers", "hex", "from_hex Vec<u8>"),
       Field("headers", "headers", "from_hex_array") >>


GetHeadersRes ==
    << Field("max", "max", "usize"),
       Field("count", "count", "usize"),
       Field("raw_headers", "hex", "from_hex Vec<u8>"),
       Field("headers", "headers", "skip") >>

GetBalanceRes ==
    << Field("confirmed", "confirmed", "u64"),
       Field("unconfirmed", "unconfirmed", "u64") >>

GetMerkleRes ==
    << Field("block_height", "block_height", "usize"),
       Field("pos", "pos", "usize"),
       Field("merkle", "merkle", "from_hex_array") >>

HeaderNotification ==
    << Field("height", "height", "usize"),
       Field("header", "hex", "from_hex_header") >>

ScriptNotification ==
    << Field("scripthash", "scripthash", "[u8; 32]"),
       Field("status", "status", "[u8; 32]") >>

RecordType(name) ==
    CASE name = "GetHistoryRes" -> GetHistoryRes
      [] name = "ListUnspentRes" -> ListUnspentRes
      [] name = "ServerFeaturesRes" -> ServerFeaturesRes
      [] name = "GetHeadersRes" -> GetHeadersRes
      [] name = "GetBalanceRes" -> GetBalanceRes
      [] name = "GetMerkleRes" -> GetMerkleRes
      [] name = "HeaderNotification" -> HeaderNotification
      [] name = "ScriptNotification" -> ScriptNotification

\* the decoder of a field's value
DecodeField(kind, v) ==
    CASE kind = "i32" -> de_i32(v)
      [] kind = "usize" -> de_unsigned(v, "usize")
      [] kind = "u64" -> de_unsigned(v, "u64")
      [] kind = "String" -> de_String(v)
      [] kind = "Txid" -> de_Txid(v)
      [] kind = "Option<u64>" -> de_Option(de_unsigned(v, "u64"), v)
      [] kind = "Option<String>" -> de_Option(de_String(v), v)
      [] kind = "Option<i64>" -> de_Option(de_i64(v), v)
      [] kind = "[u8; 32]" -> de_array32(v)
      [] kind = "from_hex [u8; 32]" -> from_hex_array32(v)
      [] kind = "from_hex Vec<u8>" -> from_hex_vec(v)
      [] kind = "from_hex_array" -> from_hex_array(v)
      [] kind = "from_hex_header" -> from_hex_header(v)

\* a field that is absent from an object is None
IsOption(kind) == kind \in {"Option<u64>", "Option<String>", "Option<i64>"}

FieldNames(fields) == {fields[i].name : i \in 1..Len(fields)}

FieldOf(fields, name) == fields[CHOOSE i \in 1..Len(fields) : fields[i].name = name]

\* #[serde(skip)]: Default::default() of Vec
SkipDefault == << >>

\* a variant: a field whose value fails is left None and the record returned
VisitMap_partial(fields, o) ==
    Ok([n \in FieldNames(fields) |->
          IF FieldOf(fields, n).kind = "skip" THEN SkipDefault
          ELSE IF FieldOf(fields, n).key \in DOMAIN o
                  /\ DecodeField(FieldOf(fields, n).kind, o[FieldOf(fields, n).key]).ok
          THEN DecodeField(FieldOf(fields, n).kind, o[FieldOf(fields, n).key]).val
          ELSE None])

\* visit_map: the keys of the payload are visited in their order and the
\* first value that fails ends the decoding; a key that names no decoded
\* field is ignored; the fields that no key named are then looked at in the
\* order of their declaration
VisitMap(fields, o) ==
    LET wire == {i \in 1..Len(fields) : fields[i].kind # "skip"}
        here == {i \in wire : fields[i].key \in DOMAIN o}
        failing == {i \in here : ~DecodeField(fields[i].kind, o[fields[i].key]).ok}
        first == CHOOSE i \in failing :
                    \A j \in failing : KeyIndex(fields[i].key) <= KeyIndex(fields[j].key)
        missing == {i \in wire \ here : ~IsOption(fields[i].kind)}
    IN  IF failing # {} THEN DecodeField(fields[first].kind, o[fields[first].key])
        ELSE IF missing # {} THEN Err(DeMissingField(fields[Min(missing)].key))
        ELSE Ok([n \in FieldNames(fields) |->
                   IF FieldOf(fields, n).kind = "skip" THEN SkipDefault
                   ELSE IF FieldOf(fields, n).key \in DOMAIN o
                   THEN DecodeField(FieldOf(fields, n).kind, o[FieldOf(fields, n).key]).val
                   ELSE None])

\* visit_seq: the elements of the payload are the decoded fields in the order
\* of their declaration, none missing and none left over
VisitSeq(fields, a) ==
    LET wire == SelectSeq(fields, LAMBDA f : f.kind # "skip")
        failing == {j \in 1..Len(wire) : j <= Len(a) /\ ~DecodeField(wire[j].kind, a[j]).ok}
        pos(n) == CHOOSE j \in 1..Len(wire) : wire[j].name = n
    IN  IF failing # {} THEN DecodeField(wire[Min(failing)].kind, a[Min(failing)])
        ELSE IF Len(a) # Len(wire) THEN Err(DeInvalidLength(Len(a)))
        ELSE Ok([n \in FieldNames(fields) |->
                   IF FieldOf(fields, n).kind = "skip" THEN SkipDefault
                   ELSE DecodeField(FieldOf(fields, n).kind, a[pos(n)]).val])

\* #[derive(Deserialize)] on a struct, as serde_json::from_value drives it
Deserialize(fields, payload) ==
    CASE payload.t = "obj" -> VisitMap(fields, payload.o)
      [] payload.t = "arr" -> VisitSeq(fields, payload.a)
      [] OTHER -> Err(DeInvalidType("struct"))

(***************************************************************************)
(* Error: the kinds that wrap a lower-level error, and their From          *)
(***************************************************************************)
\* a variant: the error is turned into a message and the cause is lost
impl_error_to_message(to, err) == [kind |-> "Message", cause |-> to]

\* impl_error!($from, $to): Error::$to(err)
impl_error(to, err) == [kind |-> to, cause |-> err]

\* the four instances of impl_error!, chosen by the type of the error
Error_from(type, err) ==
    CASE type = "std::io::Error" -> impl_error("IOError", err)
      [] type = "serde_json::Error" -> impl_error("JSON", err)
      [] type = "bitcoin::hashes::hex::Error" -> impl_error("Hex", err)
      [] type = "bitcoin::consensus::encode::Error" -> impl_error("Bitcoin", err)

\* the kinds of Error (without the openssl feature)
ErrorKinds ==
    { "IOError", "JSON", "Hex", "Protocol", "Bitcoin", "AlreadySubscribed",
      "NotSubscribed", "InvalidResponse", "Message", "InvalidDNSNameError",
      "MissingDomain" }

(***************************************************************************)
(* The inputs of the model                                                 *)
(***************************************************************************)
MaxScriptLen == 2

MaxParams == 2

MaxId == 1

MaxHexLen == 3

MaxMerkle == 2

MaxNum == 1

\* n copies of s, one after the other
RECURSIVE Rep(_, _)
Rep(s, n) ==
    IF n <= 0 THEN ""
    ELSE IF n = 1 THEN s
    ELSE Rep(s, n \div 2) \o Rep(s, n - (n \div 2))

\* OP_0, OP_DUP and 0xff
ScriptBytes == {0, 118, 255}

\* a pay-to-public-key-hash script and a script of more than one SHA-256 block
P2PKH == << 118, 169, 20 >> \o [i \in 1..20 |-> 16 + i] \o << 136, 172 >>

LongScript == [i \in 1..70 |-> i]

Scripts ==
    UNION {[1..n -> ScriptBytes] : n \in 0..MaxScriptLen} \cup {P2PKH, LongScript}

Methods == {"server.version", "blockchain.scripthash.get_history"}

ParamValues ==
    { ParamU32(0), ParamUsize(7), ParamString("ab"), ParamString("a\"b"),
      ParamBool(TRUE), ParamJson(JNull), ParamJson(JArr(<< JNum(1), JStr("x") >>)) }

ParamSeqs == UNION {[1..n -> ParamValues] : n \in 0..MaxParams}

HexAlphabet == {"0", "a", "F", "g"}

\* the strings of n characters of the alphabet, and of at most n
RECURSIVE StrsOfLen(_)
StrsOfLen(n) ==
    IF n = 0 THEN {""} ELSE {c \o s : c \in HexAlphabet, s \in StrsOfLen(n - 1)}

ShortStrs == UNION {StrsOfLen(n) : n \in 0..MaxHexLen}

TxA == Rep("0123456789abcdef", 4)

GenesisHash == "000000000019d6689c085ae165831e934ff763ae46a2a6c172b3f1b60a8ce26f"

\* strings of 62 to 66 characters, a short string at their start or their end
LongStrs ==
    {s \o Rep("7", n - Len(s)) : s \in ShortStrs, n \in {62, 63, 64, 66}}
      \cup {Rep("7", n - Len(s)) \o s : s \in ShortStrs, n \in {63, 64}}
      \cup {TxA, GenesisHash}

HexValues == {JStr(s) : s \in ShortStrs \cup LongStrs} \cup {JNum(1), JNull}

MerkleElements ==
    { JStr(TxA), JStr(GenesisHash), JStr("abc"), JStr(Rep("7", 62) \o "0g"),
      JStr("g" \o Rep("a", 63)), JNum(1) }

MerkleValues ==
    {JArr(a) : a \in UNION {[1..n -> MerkleElements] : n \in 0..MaxMerkle}}
      \cup {JNum(1), JStr(TxA)}

Absent == [t \in {"t"} |-> "absent"]

\* the object of the pairs <<key, value>> whose value is not Absent
MkObj(pairs) ==
    JObj([k \in {pairs[i][1] : i \in {j \in 1..Len(pairs) : pairs[j][2] # Absent}} |->
            pairs[CHOOSE i \in 1..Len(pairs) : pairs[i][1] = k][2]])

Nums == {JNum(n) : n \in (-1)..MaxNum}

HeaderHex == Rep("01", 4) \o Rep("a0", 32) \o Rep("0b", 32) \o Rep("ff", 12)

HeaderValues ==
    { JStr(HeaderHex), JStr(Rep("00", 79)), JStr(Rep("00", 81)), JStr("abc"),
      JStr(Rep("0g", 80)), JStr(""), JNum(1) }

Bytes32 == JArr([i \in 1..32 |-> JNum(i)])

Array32Values ==
    { Absent, Bytes32, JArr([i \in 1..31 |-> JNum(i)]), JArr([i \in 1..33 |-> JNum(i)]),
      JArr([i \in 1..32 |-> JNum(i + 224)]), JArr([i \in 1..32 |-> JStr("00")]),
      JStr(TxA) }

\* payloads that are no object
OtherPayloads(type) ==
    { JNull, JStr("x"), JArr(<< >>), JArr(<< JNum(500), JNum(0) >>),
      JArr(<< JNum(1), JNum(1), JStr("00") >>),
      JArr(<< JNum(0), JStr(TxA), JNull >>), JArr(<< JNum(0), JStr(HeaderHex) >>) }

Payloads(type) ==
    OtherPayloads(type) \cup
    CASE type = "GetHistoryRes" ->
           { MkObj(<< <<"height", h>>, <<"tx_hash", t>>, <<"fee", f>> >>) :
               h \in Nums \cup {Absent, JStr("1")},
               t \in {Absent, JStr(TxA), JStr("abc"), JNum(1)},
               f \in Nums \cup {Absent, JNull, JStr("1")} }
      [] type = "ListUnspentRes" ->
           { MkObj(<< <<"height", h>>, <<"tx_hash", t>>, <<"tx_pos", p>>, <<"value", v>> >>) :
               h \in Nums \cup {Absent},
               t \in {JStr(TxA), JStr("g" \o Rep("a", 63))},
               p \in {Absent, JNum(0), JNum(-1)},
               v \in {JNum(0), JNum(1), JStr("1")} }
      [] type = "ServerFeaturesRes" ->
           { MkObj(<< <<"server_version", sv>>, <<"genesis_hash", g>>,
                      <<"protocol_min", JStr("1.0")>>, <<"protocol_max", pm>>,
                      <<"hash_function", hf>>, <<"pruning", pr>> >>) :
               sv \in {Absent, JStr("ElectrumX 1.13.0"), JNum(1)},
               g \in { Absent, JStr(GenesisHash), JStr("abc"), JStr(Rep("0", 63)),
                       JStr(Rep("7", 62) \o "0g"), JStr(Rep("0", 66)), JStr(""), JNum(0) },
               pm \in {Absent, JStr("1.4")},
               hf \in {Absent, JStr("sha256"), JNum(1)},
               pr \in {Absent, JNull, JNum(-1)} }
      [] type = "GetHeadersRes" ->
           { MkObj(<< <<"max", m>>, <<"count", c>>, <<"hex", x>>, <<"headers", hs>> >>) :
               m \in {Absent, JNum(2016)},
               c \in Nums,
               x \in { Absent, JStr(""), JStr(HeaderHex), JStr(HeaderHex \o HeaderHex),
                       JStr("abc"), JStr("0g"), JNum(1) },
               hs \in { Absent, JArr(<< >>), JArr(<< JStr(HeaderHex) >>),
                        JArr(<< JStr(TxA) >>), JStr("x") } }
      [] type = "GetBalanceRes" ->
           { MkObj(<< <<"confirmed", c>>, <<"unconfirmed", u>>, <<"extra", e>> >>) :
               c \in Nums \cup {Absent, JNum(500), JStr("1")},
               u \in Nums \cup {Absent, JNull},
               e \in {Absent, JNum(1)} }
      [] type = "GetMerkleRes" ->
           { MkObj(<< <<"block_height", b>>, <<"pos", p>>, <<"merkle", m>> >>) :
               b \in {Absent, JNum(0), JNum(1)},
               p \in {JNum(0), JNum(-1)},
               m \in MerkleValues \cup {Absent} }
      [] type = "HeaderNotification" ->
           { MkObj(<< <<"height", h>>, <<"hex", x>> >>) :
               h \in Nums \cup {Absent},
               x \in HeaderValues \cup {Absent} }
      [] type = "ScriptNotification" ->
           { MkObj(<< <<"scripthash", sh>>, <<"status", st>> >>) :
               sh \in Array32Values, st \in Array32Values }

\* lower-level errors to lift
LowerErrors(type) ==
    CASE type = "std::io::Error" ->
           {[io |-> "UnexpectedEof"], [io |-> "ConnectionReset"], [io |-> "TimedOut"]}
      [] type = "serde_json::Error" ->
           { DeInvalidType("i32"), DeMissingField("hex"),
             DeCustom(HexErrorDisplay(OddLengthString(3))) }
      [] type = "bitcoin::hashes::hex::Error" ->
           {InvalidChar("g"), OddLengthString(3), InvalidLength(64, 4)}
      [] type = "bitcoin::consensus::encode::Error" ->
           { [consensus |-> "Io", msg |-> "failed to fill whole buffer"],
             [consensus |-> "ParseFailed",
              msg |-> "data not consumed entirely when explicitly deserializing"] }

LowerErrorTypes ==
    { "std::io::Error", "serde_json::Error", "bitcoin::hashes::hex::Error",
      "bitcoin::consensus::encode::Error" }

(***************************************************************************)
(* The state: the last operation called, its input and what it returned.   *)
(* The layer keeps no state of its own between calls.                      *)
(***************************************************************************)
VARIABLES op, arg, res

vars == << op, arg, res >>

\* nothing has been called
Idle == op = "idle" /\ arg = << >> /\ res = << >>

Init == Idle

ScriptHash ==
    \E script \in Scripts :
        /\ op = "idle"
        /\ op' = "to_electrum_scripthash"
        /\ arg' = [script |-> script]
        /\ res' = [hash |-> to_electrum_scripthash(script)]

RequestNew ==
    \E method \in Methods, params \in ParamSeqs :
        /\ op = "idle"
        /\ op' = "Request::new"
        /\ arg' = [method |-> method, params |-> params]
        /\ res' = Request_new(method, params)

RequestNewId ==
    \E id \in 0..MaxId, method \in Methods, params \in ParamSeqs :
        /\ op = "idle"
        /\ op' = "Request::new_id"
        /\ arg' = [id |-> id, method |-> method, params |-> params]
        /\ res' = Request_new_id(id, method, params)

\* a request can only come from one of its constructors
Serialize ==
    /\ op \in {"Request::new", "Request::new_id"}
    /\ op' = "serialize"
    /\ arg' = res
    /\ res' = [fields |-> SerializeRequest(res),
               text |-> WriteStruct(SerializeRequest(res))]

FromHex32 ==
    \E v \in HexValues :
        /\ op = "idle"
        /\ op' = "from_hex [u8; 32]"
        /\ arg' = v
        /\ res' = from_hex_array32(v)

FromHexVecCall ==
    \E v \in HexValues :
        /\ op = "idle"
        /\ op' = "from_hex Vec<u8>"
        /\ arg' = v
        /\ res' = from_hex_vec(v)

FromHexArray ==
    \E v \in MerkleValues :
        /\ op = "idle"
        /\ op' = "from_hex_array"
        /\ arg' = v
        /\ res' = from_hex_array(v)

FromHexHeader ==
    \E v \in HeaderValues :
        /\ op = "idle"
        /\ op' = "from_hex_header"
        /\ arg' = v
        /\ res' = from_hex_header(v)

Decode(type) ==
    \E payload \in Payloads(type) :
        /\ op = "idle"
        /\ op' = "decode"
        /\ arg' = [type |-> type, payload |-> payload]
        /\ res' = Deserialize(RecordType(type), payload)

ErrorFrom ==
    \E type \in LowerErrorTypes : \E err \in LowerErrors(type) :
        /\ op = "idle"
        /\ op' = "Error::from"
        /\ arg' = [type |-> type, err |-> err]
        /\ res' = Error_from(type, err)

\* the caller is done with what the call returned
Return ==
    /\ op # "idle"
    /\ op' = "idle"
    /\ arg' = << >>
    /\ res' = << >>

Next ==
    \/ ScriptHash
    \/ RequestNew
    \/ RequestNewId
    \/ Serialize
    \/ FromHex32
    \/ FromHexVecCall
    \/ FromHexArray
    \/ FromHexHeader
    \/ Decode("GetHistoryRes")
    \/ Decode("ListUnspentRes")
    \/ Decode("ServerFeaturesRes")
    \/ Decode("GetHeadersRes")
    \/ Decode("GetBalanceRes")
    \/ Decode("GetMerkleRes")
    \/ Decode("HeaderNotification")
    \/ Decode("ScriptNotification")
    \/ ErrorFrom
    \/ Return

Spec == Init /\ [][Next]_vars

(***************************************************************************)
(* The properties of the layer                                             *)
(***************************************************************************)
\* the characters that are hexadecimal digits
LowerHexDigits == <<"0", "1", "2", "3", "4", "5", "6", "7", "8", "9",
                    "a", "b", "c", "d", "e", "f">>

IsHexChar(c) ==
    c \in {LowerHexDigits[i] : i \in 1..16} \cup {"A", "B", "C", "D", "E", "F"}

IsLowerHexChar(c) == c \in {LowerHexDigits[i] : i \in 1..16}

AllHex(s) == \A i \in 1..Len(s) : IsHexChar(Char(s, i))

AllLowerHex(s) == \A i \in 1..Len(s) : IsLowerHexChar(Char(s, i))

\* the bytes a string of hexadecimal digits of even length stands for
BytesOf(s) ==
    [k \in 1..(Len(s) \div 2) |->
        16 * to_digit(Char(s, 2 * k - 1)) + to_digit(Char(s, 2 * k))]

\* the lowercase hexadecimal text of bytes lo..hi of a sequence of bytes
RECURSIVE ToHexRange(_, _, _)
ToHexRange(bytes, lo, hi) ==
    IF lo > hi THEN ""
    ELSE IF lo = hi
    THEN LowerHexDigits[(bytes[lo] \div 16) + 1] \o LowerHexDigits[(bytes[lo] % 16) + 1]
    ELSE ToHexRange(bytes, lo, (lo + hi) \div 2)
           \o ToHexRange(bytes, ((lo + hi) \div 2) + 1, hi)

ToHex(bytes) == ToHexRange(bytes, 1, Len(bytes))

\* a failure carries an error and nothing else: no value, whole or partial
FailsWithoutValue(r) == ~r.ok /\ DOMAIN r = {"ok", "err"}

\* the messages of the hex errors that apply to a string, for a target of n
\* bytes (n = -1: a target of any length)
HexMessages(s, n) ==
    (IF Len(s) % 2 # 0 THEN {HexErrorDisplay(OddLengthString(Len(s)))} ELSE {})
      \cup (IF n >= 0 /\ Len(s) # 2 * n
            THEN {HexErrorDisplay(InvalidLength(2 * n, Len(s)))} ELSE {})
      \cup {HexErrorDisplay(InvalidChar(Char(s, i))) :
              i \in {j \in 1..Len(s) : ~IsHexChar(Char(s, j))}}

\* C1: to_electrum_scripthash returns the 32 bytes of the SHA-256 digest of
\* the script in the reverse order: byte i of the result is byte 31 - i of the
\* digest, for every i of 0..31.  It never fails: what it returns is always 32
\* bytes.  The digest is SHA-256: the digest of the empty script starts with
\* e3 b0 and ends with b8 55.
C1_ScriptHashIsReversedDigest ==
    op = "to_electrum_scripthash" =>
        LET digest == Sha256(arg.script)
        IN  /\ DOMAIN res = {"hash"}
            /\ DOMAIN res.hash = 1..32
            /\ \A i \in 0..31 :
                 res.hash[i + 1] \in 0..255 /\ res.hash[i + 1] = digest[(31 - i) + 1]
            /\ arg.script = << >> =>
                 /\ res.hash[32] = 227 /\ res.hash[31] = 176
                 /\ res.hash[2] = 184 /\ res.hash[1] = 85

C1_Witness ==
    /\ op = "to_electrum_scripthash"
    /\ arg.script = P2PKH
    /\ Len(res.hash) = 32
    /\ res.hash[1] # res.hash[32]

\* C2: Request::new gives the id 0 and Request::new_id the id of the caller;
\* both give the version "2.0", which is no input of either, and keep the
\* method and the parameters, in their order, as they were given.
C2_RequestConstructors ==
    /\ op = "Request::new" =>
         /\ DOMAIN arg = {"method", "params"}
         /\ res.id = 0
         /\ res.jsonrpc = "2.0"
         /\ res.method = arg.method
         /\ res.params = arg.params
    /\ op = "Request::new_id" =>
         /\ DOMAIN arg = {"id", "method", "params"}
         /\ res.id = arg.id
         /\ res.jsonrpc = "2.0"
         /\ res.method = arg.method
         /\ res.params = arg.params

C2_Witness ==
    /\ op = "Request::new_id"
    /\ arg.id = 1
    /\ Len(arg.params) = 2
    /\ arg.params[1] # arg.params[2]
    /\ res.id = 1

\* the value a parameter stands for
BareValue(p) ==
    CASE "u32" \in DOMAIN p -> JNum(p.u32)
      [] "usize" \in DOMAIN p -> JNum(p.usize)
      [] "string" \in DOMAIN p -> JStr(p.string)
      [] "bool" \in DOMAIN p -> JBool(p.bool)
      [] "json" \in DOMAIN p -> p.json

\* C3: a serialized request is an object of exactly the keys jsonrpc, id,
\* method, params, in this order; params is an array as long as the sequence
\* of parameters, each element the bare value of its parameter, in the same
\* order; Request::new("server.version", []) is written
\* {"jsonrpc":"2.0","id":0,"method":"server.version","params":[]}.
C3_SerializedRequest ==
    op = "serialize" =>
        /\ Len(res.fields) = 4
        /\ << res.fields[1][1], res.fields[2][1], res.fields[3][1], res.fields[4][1] >>
             = << "jsonrpc", "id", "method", "params" >>
        /\ res.fields[4][2].t = "arr"
        /\ Len(res.fields[4][2].a) = Len(arg.params)
        /\ \A i \in 1..Len(arg.params) : res.fields[4][2].a[i] = BareValue(arg.params[i])
        /\ res.text =
             "{\"jsonrpc\":\"2.0\",\"id\":" \o ToString(arg.id)
               \o ",\"method\":" \o WriteStr(arg.method)
               \o ",\"params\":["
               \o Join([i \in 1..Len(arg.params) |-> WriteValue(BareValue(arg.params[i]))])
               \o "]}"
        /\ (arg.id = 0 /\ arg.method = "server.version" /\ arg.params = << >>) =>
             res.text = "{\"jsonrpc\":\"2.0\",\"id\":0,\"method\":\"server.version\",\"params\":[]}"

C3_Witness ==
    /\ op = "serialize"
    /\ arg.id = 1
    /\ arg.params = << ParamString("a\"b"), ParamJson(JArr(<< JNum(1), JStr("x") >>)) >>
    /\ res.text =
         "{\"jsonrpc\":\"2.0\",\"id\":1,\"method\":\"server.version\",\"params\":[\"a\\\"b\",[1,\"x\"]]}"

\* the hex string of a headers-batch payload
HexOfHeaders(payload) ==
    IF payload.t = "obj" THEN payload.o["hex"].s ELSE payload.a[3].s

\* C4: a headers-batch record that is decoded has no headers, whatever max,
\* count and the bytes of the headers are, and also when the payload has a
\* key "headers"; its raw_headers are the bytes that the payload's "hex"
\* stands for.
C4_HeadersLeftEmpty ==
    (op = "decode" /\ arg.type = "GetHeadersRes" /\ res.ok) =>
        /\ res.val.headers = << >>
        /\ res.val.raw_headers = BytesOf(HexOfHeaders(arg.payload))

C4_Witness ==
    /\ op = "decode"
    /\ arg.type = "GetHeadersRes"
    /\ arg.payload.t = "obj"
    /\ {"headers", "hex"} \subseteq DOMAIN arg.payload.o
    /\ arg.payload.o["headers"] = JArr(<< JStr(HeaderHex) >>)
    /\ arg.payload.o["hex"] = JStr(HeaderHex \o HeaderHex)
    /\ res.ok
    /\ Len(res.val.raw_headers) = 160

\* the other fields of a server-features payload decode
OtherFeaturesDecode(o) ==
    /\ {"server_version", "protocol_min", "protocol_max"} \subseteq DOMAIN o
    /\ \A k \in {"server_version", "protocol_min", "protocol_max"} : o[k].t = "str"
    /\ "hash_function" \in DOMAIN o => o["hash_function"].t \in {"str", "null"}
    /\ "pruning" \in DOMAIN o => o["pruning"].t \in {"num", "null"}

IsHex32(s) == Len(s) = 64 /\ AllHex(s)

\* C6: an array of hex strings is decoded element by element: when every
\* element stands for 32 bytes the result has the length of the array and its
\* i-th element is the bytes of the i-th string; otherwise the result is the
\* error of the first element, in the order of the array, that does not, and
\* no sequence.
C6_HexArray ==
    (op = "from_hex_array" /\ arg.t = "arr"
       /\ \A i \in 1..Len(arg.a) : arg.a[i].t = "str") =>
        LET bad == {i \in 1..Len(arg.a) : ~IsHex32(arg.a[i].s)}
        IN  IF bad = {}
            THEN /\ res.ok
                 /\ Len(res.val) = Len(arg.a)
                 /\ \A i \in 1..Len(arg.a) : res.val[i] = BytesOf(arg.a[i].s)
            ELSE /\ FailsWithoutValue(res)
                 /\ res.err.de = "custom"
                 /\ res.err.msg \in HexMessages(arg.a[Min(bad)].s, 32)
                 /\ res.err = from_hex_array32(arg.a[Min(bad)]).err

C6_Witness ==
    /\ op = "from_hex_array"
    /\ arg = JArr(<< JStr("abc"), JStr("g" \o Rep("a", 63)) >>)
    /\ ~res.ok
    /\ res.err = DeCustom("odd hex string length 3")

\* C7: a string of 2n lowercase hex digits decodes to n bytes, and the
\* lowercase hex text of these bytes is the string.
C7_HexRoundTrip ==
    /\ (op = "from_hex Vec<u8>" /\ arg.t = "str"
          /\ Len(arg.s) % 2 = 0 /\ AllLowerHex(arg.s)) =>
         /\ res.ok
         /\ Len(res.val) = Len(arg.s) \div 2
         /\ ToHex(res.val) = arg.s
    /\ (op = "from_hex [u8; 32]" /\ arg.t = "str"
          /\ Len(arg.s) = 64 /\ AllLowerHex(arg.s)) =>
         /\ res.ok
         /\ Len(res.val) = 32
         /\ ToHex(res.val) = arg.s

C7_Witness ==
    /\ op = "from_hex [u8; 32]"
    /\ arg = JStr(GenesisHash)
    /\ res.ok
    /\ res.val[32] = 111
    /\ ToHex(res.val) = GenesisHash

\* the fields of a record type that the decoder reads
WireFields(fields) == SelectSeq(fields, LAMBDA f : f.kind # "skip")

\* the value that a payload gives for a field, Absent if it gives none: the
\* value of the field's key in an object, the element at the field's place
\* in an array
Given(payload, fields, f) ==
    IF payload.t = "obj"
    THEN (IF f.key \in DOMAIN payload.o THEN payload.o[f.key] ELSE Absent)
    ELSE IF \E j \in 1..Len(WireFields(fields)) :
               WireFields(fields)[j].name = f.name /\ j <= Len(payload.a)
    THEN payload.a[CHOOSE j \in 1..Len(WireFields(fields)) :
                      WireFields(fields)[j].name = f.name]
    ELSE Absent

\* the payload's value for a field does not decode, or a required value is
\* not there
FieldFails(payload, fields, f) ==
    IF Given(payload, fields, f) = Absent
    THEN payload.t = "arr" \/ ~IsOption(f.kind)
    ELSE ~DecodeField(f.kind, Given(payload, fields, f)).ok

\* no record can be decoded from the payload
Broken(payload, fields) ==
    \/ payload.t \notin {"obj", "arr"}
    \/ payload.t = "arr" /\ Len(payload.a) # Len(WireFields(fields))
    \/ \E i \in 1..Len(fields) :
         fields[i].kind # "skip" /\ FieldFails(payload, fields, fields[i])

\* what a decoded field holds
Decoded(payload, fields, f) ==
    IF Given(payload, fields, f) = Absent THEN None
    ELSE DecodeField(f.kind, Given(payload, fields, f)).val

\* a failure is one error, which lifts to one kind of Error
OneErrorKind(r) ==
    /\ FailsWithoutValue(r)
    /\ Error_from("serde_json::Error", r.err).kind \in ErrorKinds
    /\ Error_from("serde_json::Error", r.err).cause = r.err

\* C8, as it was stated: decoding a response or a notification either gives
\* a record every field of which is populated from the payload (a sequence
\* of the record has the elements of the payload's array), or fails with one
\* kind of error.
C8_EveryFieldFromPayload ==
    op = "decode" =>
        LET fields == RecordType(arg.type)
        IN  \/ /\ res.ok
               /\ \A i \in 1..Len(fields) :
                    IF fields[i].kind = "skip"
                    THEN LET v == Given(arg.payload, fields, fields[i])
                         IN  (v # Absent /\ v.t = "arr") =>
                                Len(res.val[fields[i].name]) = Len(v.a)
                    ELSE res.val[fields[i].name] = Decoded(arg.payload, fields, fields[i])
            \/ OneErrorKind(res)

\* C8: decoding a response or a notification is all or nothing.  When the
\* payload is no object or array, or any one field that the decoder reads
\* fails (a value of the wrong type, a required value missing, a hex string
\* or a header that does not decode), the result is one error, of one kind,
\* and no record.  Otherwise the result is a record with every field that the
\* decoder reads populated from the payload; the headers of a headers batch,
\* which the decoder does not read, are left empty.
C8_AllOrNothing ==
    op = "decode" =>
        LET fields == RecordType(arg.type)
        IN  IF Broken(arg.payload, fields)
            THEN OneErrorKind(res)
            ELSE /\ res.ok
                 /\ DOMAIN res = {"ok", "val"}
                 /\ DOMAIN res.val = FieldNames(fields)
                 /\ \A i \in 1..Len(fields) :
                      res.val[fields[i].name] =
                        IF fields[i].kind = "skip" THEN << >>
                        ELSE Decoded(arg.payload, fields, fields[i])

C8_Witness ==
    /\ op = "decode"
    /\ arg.type = "HeaderNotification"
    /\ arg.payload = MkObj(<< <<"height", JNum(1)>>, <<"hex", JStr(Rep("00", 79))>> >>)
    /\ ~res.ok
    /\ res.err = DeCustom("I/O error: failed to fill whole buffer")

\* C9: lifting a lower-level error gives the kind of its source (an I/O error
\* IOError, a JSON error JSON, a hex error Hex, a consensus error Bitcoin)
\* with the error itself, unchanged, as the cause; the errors of another
\* source lift to another kind.
C9_ErrorLifting ==
    op = "Error::from" =>
        /\ res.kind = (CASE arg.type = "std::io::Error" -> "IOError"
                         [] arg.type = "serde_json::Error" -> "JSON"
                         [] arg.type = "bitcoin::hashes::hex::Error" -> "Hex"
                         [] arg.type = "bitcoin::consensus::encode::Error" -> "Bitcoin")
        /\ res.kind \in ErrorKinds
        /\ DOMAIN res = {"kind", "cause"}
        /\ res.cause = arg.err
        /\ \A type \in LowerErrorTypes \ {arg.type} : \A err \in LowerErrors(type) :
             Error_from(type, err).kind # res.kind

C9_Witness ==
    /\ op = "Error::from"
    /\ arg.type = "bitcoin::hashes::hex::Error"
    /\ arg.err = OddLengthString(3)
    /\ res.kind = "Hex"
    /\ res.cause = OddLengthString(3)

\* a history-entry payload with a number as its height, a transaction id,
\* and as its fee a number that is not negative, null or nothing
IsHistoryEntry(payload) ==
    /\ payload.t = "obj"
    /\ {"height", "tx_hash"} \subseteq DOMAIN payload.o
    /\ payload.o["height"].t = "num"
    /\ payload.o["tx_hash"].t = "str"
    /\ IsHex32(payload.o["tx_hash"].s)
    /\ "fee" \in DOMAIN payload.o =>
         \/ payload.o["fee"].t = "null"
         \/ payload.o["fee"].t = "num" /\ payload.o["fee"].n >= 0

\* C10: a history entry is decoded with its height as given, negative or
\* not: a height of -1 is kept, not refused and not made 0.  A fee that is
\* null or absent is None, a fee that is a number is that number.
C10_HistoryEntry ==
    (op = "decode" /\ arg.type = "GetHistoryRes" /\ IsHistoryEntry(arg.payload)) =>
        /\ res.ok
        /\ res.val.height = arg.payload.o["height"].n
        /\ res.val.fee =
             IF "fee" \notin DOMAIN arg.payload.o THEN None
             ELSE IF arg.payload.o["fee"].t = "null" THEN None
             ELSE Some(arg.payload.o["fee"].n)

C10_Witness ==
    /\ op = "decode"
    /\ arg.type = "GetHistoryRes"
    /\ arg.payload = MkObj(<< <<"height", JNum(-1)>>, <<"tx_hash", JStr(TxA)>>,
                              <<"fee", JNull>> >>)
    /\ res.ok
    /\ res.val.height = -1
    /\ res.val.fee = None

====
